---- MODULE Spec2Model ----
(***************************************************************************)
(* Game-session core of the two motion-controlled mini-games, PongGame and *)
(* BirdDodger: the per-frame update pass (updateGame, checkCollisions,     *)
(* spawnBird, resetBall) and the button handler (handleInput).             *)
(*                                                                         *)
(* Number representation.  The firmware computes with 32-bit floats; the   *)
(* model computes with fixed-point integers and rounds to nearest:         *)
(*   - accelerations (IMU sample, filter value) in 1/G_UNIT g,             *)
(*   - actor positions paddleY / planeX in 1/AXIS_UNIT of the [0,1] axis,  *)
(*   - Pong ball coordinates and velocities in 1/PX_UNIT pixel,            *)
(*   - BirdDodger bird y and scrollSpeed in 1/Y_UNIT pixel, bird x in      *)
(*     whole pixels (it is an integer drawn by esp_random() % 122).        *)
(* Binary rounding error of the float operations is not represented.       *)
(*                                                                         *)
(* Environment.  The IMU reading imuSample is held steady while a session  *)
(* is being played and may change while the Game Over screen is shown;     *)
(* SpecSteer and SpecFair let it change once during play.                  *)
(*                                                                         *)
(* Contexts.  Spec, SpecLong and SpecPool take onStart(), onStop(), one    *)
(* updateGame() call and one handleInput() call as one step each.          *)
(* SpecThreads follows the two contexts of a screen: the UI context        *)
(* (onStart and onStop statement by statement, loop()) and the game thread *)
(* (gameLoop(): loop test, updateGame(), the two halves of updateUI()).    *)
(* SpecRestart runs the restart block of handleInput() statement by        *)
(* statement between updateGame() calls.  SpecPong, SpecQueue, SpecClock   *)
(* and SpecEma follow one part each: Pong at every launch angle, the input *)
(* queue, the frame clock of gameLoop(), the sensor filter.  SpecSteer is   *)
(* Pong with one change of the IMU reading during play, at the first       *)
(* bounce off the right wall.  SpecFair (Pong) and SpecFairBird            *)
(* (BirdDodger) run the game loop under weak fairness of the tick, as the  *)
(* game thread keeps calling updateGame() while the screen is open.        *)
(***************************************************************************)
EXTENDS Integers, Sequences, FiniteSets

\* ------------------------------------------------------------ units
G_UNIT    == 1000
AXIS_UNIT == 1000
PX_UNIT   == 1000
Y_UNIT    == 10

\* ------------------------------------------------------------ bounds
\* Playing ticks modelled per session (since construction or last restart).
MaxFrames == 200
\* Playing ticks modelled per Pong session.
MaxPongTicks == 300
\* Ticks counted while the session is frozen in Game Over.
MaxIdleTicks == 2
\* Times the wearer changes the tilt of the device (while Game Over is shown).
MaxImuMoves == 1
\* Calls made on the bird pool in the pool specification.
MaxPoolOps == 8
\* Playing ticks modelled per session in the long-session specification.
LongFrames == 13000
\* Playing ticks modelled per session in the two-context specification.
MaxThreadTicks == 170
\* Times the screen is started in the two-context specification.
MaxStarts == 2
\* Playing ticks modelled per session in the input-queue specification.
MaxQueueTicks == 170
\* Playing ticks modelled per session in the frame-clock specification.
MaxClockTicks == 40
\* Filter updates followed at one tilt in the filter specification.
MaxEmaSteps == 60
\* Playing ticks modelled per session in the fair-schedule specification.
MaxFairTicks == 520

\* ------------------------------------------------------------ constants
SCREEN_WIDTH    == 128
SCREEN_HEIGHT   == 128
\* BirdDodger
MAX_BIRDS       == 5
PLANE_SIZE      == 8
BIRD_SIZE       == 6
PLANE_Y         == 100
INITIAL_SPEED   == 10      \* 1.0f  in 1/Y_UNIT
SPEED_INCREMENT == 1       \* 0.1f  in 1/Y_UNIT
MAX_SPEED       == 30      \* 3.0f  in 1/Y_UNIT
PLANE_SPEED     == 3       \* 0.03f in hundredths
SPAWN_INTERVAL  == 60
\* PongGame
BALL_SIZE       == 4
PADDLE_WIDTH    == 4
PADDLE_HEIGHT   == 24
BALL_SPEED      == 1500    \* 1.5f  in 1/PX_UNIT
PADDLE_SPEED    == 2       \* 0.02f in hundredths
\* both
filterStrength  == 15      \* 0.15f in hundredths
QUEUE_SIZE      == 4       \* queue(4)
frameTime       == 16      \* pdMS_TO_TICKS(16), RTOS ticks of 1 ms
HALF_RANGE      == 300     \* 0.3f g in 1/G_UNIT
FULL_RANGE      == 600     \* 0.6f g in 1/G_UNIT

\* ------------------------------------------------------------ inputs
\* IMU readings the wearer can produce (1/G_UNIT g): level, inside the
\* mapped +/-0.3 g range, and far outside it on both sides.
Samples == {-2000, 0, 150, 2000}
\* Values returned by esp_random() (uint32_t).
RandVals == {0, 45, 60}
\* Events the queue can deliver to handleInput(); "Empty" is queue.get()
\* returning false.
Events ==
    {"Empty", "PressSelect", "PressAlt", "ReleaseSelect", "ReleaseAlt", "NonInput"}
\* The long-session specification: the device is tilted far to one side or
\* the other, esp_random() returns one value, and the events are those that
\* can restart a session.
LongSamples == {-2000, 2000}
LongRandVals == {0}
LongEvents == {"Empty", "PressSelect"}
\* The two-context specification: the watch far tilted and the random value
\* 0 (the plane and every bird at the left edge; the paddle at the top), and
\* the events that take a branch of handleInput().
ThreadSamples == {-2000}
ThreadRandVals == {0}
ThreadEvents == {"Empty", "PressSelect", "PressAlt"}

\* ------------------------------------------------------------ helpers
RoundDiv(a, b) == (2 * a + b) \div (2 * b)

Clamp(v, lo, hi) == IF v < lo THEN lo ELSE IF v > hi THEN hi ELSE v

Min(a, b) == IF a < b THEN a ELSE b

\* (mutant) the update takes a third of the strength
EMAUpdateWeak(current, sample) ==
    RoundDiv(current * (300 - filterStrength) + sample * filterStrength, 300)

\* EMA::update: current*(1-strength) + sample*strength
EMAUpdate(current, sample) ==
    RoundDiv(current * (100 - filterStrength) + sample * filterStrength, 100)

\* EMA::reset
EMAReset(sample) == sample

\* std::clamp((filtered + 0.3f) / 0.6f, 0.0f, 1.0f)
MapToAxis(filtered) ==
    Clamp(RoundDiv((filtered + HALF_RANGE) * AXIS_UNIT, FULL_RANGE), 0, AXIS_UNIT)

\* pos += (target - pos) * speed;  pos = std::clamp(pos, 0.0f, 1.0f)
MoveActor(pos, target, speed) ==
    Clamp(pos + RoundDiv((target - pos) * speed, 100), 0, AXIS_UNIT)

\* (mutant) neither std::clamp is applied
ActorStepUnclamped(pos, filtered, speed) ==
    pos + RoundDiv((RoundDiv((filtered + HALF_RANGE) * AXIS_UNIT, FULL_RANGE) - pos) * speed, 100)

\* updateGame(): the filtered reading is mapped to the axis and the actor
\* (paddle or plane) eased toward it.
ActorStep(pos, filtered, speed) == MoveActor(pos, MapToAxis(filtered), speed)

BirdIdx == 0 .. (MAX_BIRDS - 1)

VARIABLES
    game,                \* which screen was constructed: "Pong" or "BirdDodger"
    running,             \* std::atomic_bool running
    exitRequested,       \* transition() to the main menu was requested
    imuSample,           \* what imu->getSample() returns (accelX / accelY)
    filter,              \* pitchFilter / rollFilter: the EMA's current value
    score,
    gameOver,
    \* PongGame
    ballState,           \* [x, y, vx, vy]
    paddleY,
    \* BirdDodger
    planeX,
    birdState,           \* [BirdIdx -> [x, y, active]]
    lastDifficultyScore,
    scrollSpeed,
    frameCounter,
    hiddenFlag,          \* per bird object birds[i]: LV_OBJ_FLAG_HIDDEN is set
    testedInRow,         \* per slot: checkCollisions() has tested its bird in the plane's row (bookkeeping)
    played,              \* the sounds the last updateGame() / handleInput() call played (bookkeeping)
    \* bookkeeping (not program state)
    playTicks,           \* Playing ticks since construction or last restart
    idleTicks,           \* ticks run since gameOver was set (capped)
    imuMoves,            \* number of times the wearer re-tilted the device
    lastOp,              \* the step that produced this state
    \* the two contexts
    pc,                  \* the game thread's position in gameLoop()
    hostMode,            \* what the UI context is in: "stopped", "onStart", "active", "onStop"
    hostStep,            \* the statement of onStart() / onStop() to run next
    starts,              \* number of onStart() calls (bookkeeping)
    autoSleep,           \* SleepMan's auto-sleep switch
    listening,           \* the queue is registered with Events
    queue,               \* EventQueue queue: the events posted and not yet read
    clock,               \* the RTOS tick count and gameLoop()'s startTick, time passed, delay
    rendered,            \* what the last updateUI() call gave the LVGL objects
    snap,                \* what the state left by the last updateGame() would render (bookkeeping)
    lvWriters,           \* contexts that updated an LVGL object since the thread started (bookkeeping)
    writers              \* per field, the contexts that wrote it since the thread started (bookkeeping)

vars == <<game, running, exitRequested, imuSample, filter, score, gameOver,
          ballState, paddleY, planeX, birdState, lastDifficultyScore,
          scrollSpeed, frameCounter, hiddenFlag, testedInRow, played, playTicks, idleTicks,
          imuMoves, lastOp, pc, hostMode, hostStep, starts, autoSleep, listening, queue, clock,
          rendered, snap,
          lvWriters, writers>>

threadVars == <<pc, hostMode, hostStep, starts, autoSleep, listening, queue, clock, rendered,
                snap, lvWriters, writers>>

envVars  == <<imuSample, imuMoves>>
pongVars == <<ballState, paddleY>>
birdVars ==
    <<planeX, birdState, lastDifficultyScore, scrollSpeed, frameCounter, hiddenFlag,
      testedInRow>>

\* everything but lastOp and the variables of the two contexts
coreVars ==
    <<game, running, exitRequested, envVars, filter, score, gameOver, pongVars,
      birdVars, played, playTicks, idleTicks>>

\* ============================================================ BirdDodger

NoBirds == [i \in BirdIdx |-> [x |-> 0, y |-> -BIRD_SIZE * Y_UNIT, active |-> FALSE]]

FreeSlots(birds) == {i \in BirdIdx : ~birds[i].active}

ActiveCount(birds) == Cardinality({i \in BirdIdx : birds[i].active})

LowestOf(S) == CHOOSE m \in S : \A n \in S : m <= n

\* (mutant) the scan runs from the last slot down
SpawnBirdFromTop(birds, r) ==
    IF FreeSlots(birds) = {}
    THEN birds
    ELSE [birds EXCEPT ![CHOOSE m \in FreeSlots(birds) : \A n \in FreeSlots(birds) : m >= n] =
             [x      |-> r % (SCREEN_WIDTH - BIRD_SIZE),
              y      |-> -BIRD_SIZE * Y_UNIT,
              active |-> TRUE]]

\* (mutant) with no inactive slot, the first slot is taken over
SpawnBirdEvicting(birds, r) ==
    [birds EXCEPT ![IF FreeSlots(birds) = {} THEN 0 ELSE LowestOf(FreeSlots(birds))] =
        [x      |-> r % (SCREEN_WIDTH - BIRD_SIZE),
         y      |-> -BIRD_SIZE * Y_UNIT,
         active |-> TRUE]]

\* spawnBird(): the first inactive slot, in index order, is activated at a
\* random x and at y = -BIRD_SIZE; with no inactive slot nothing happens.
SpawnBird(birds, r) ==
    IF FreeSlots(birds) = {}
    THEN birds
    ELSE [birds EXCEPT ![LowestOf(FreeSlots(birds))] =
             [x      |-> r % (SCREEN_WIDTH - BIRD_SIZE),
              y      |-> -BIRD_SIZE * Y_UNIT,
              active |-> TRUE]]

\* the constructor and the restart loop: lv_obj_add_flag(birds[i], LV_OBJ_FLAG_HIDDEN)
AllHidden == [i \in BirdIdx |-> TRUE]

\* spawnBird(): lv_obj_clear_flag(birds[i], LV_OBJ_FLAG_HIDDEN) for the slot taken
ShowSpawned(hid, birds) ==
    IF FreeSlots(birds) = {}
    THEN hid
    ELSE [hid EXCEPT ![LowestOf(FreeSlots(birds))] = FALSE]

\* (mutant) the spawn test is off by one frame
SpawnDueLate(frame) == frame % SPAWN_INTERVAL = 1

\* updateGame(): if(frameCounter % SPAWN_INTERVAL == 0) spawnBird();
SpawnDue(frame) == frame % SPAWN_INTERVAL = 0

\* (mutant) no bird is ever taken off
OffScreenNever(y) == FALSE

\* (mutant) a bird is taken off a screen height below the bottom line
OffScreenLate(y) == y > 2 * SCREEN_HEIGHT * Y_UNIT

\* (mutant) a bird is taken off when it touches the bottom line
OffScreenAtEdge(y) == y >= SCREEN_HEIGHT * Y_UNIT

\* updateGame(): one bird of the movement loop.
OffScreen(y) == y > SCREEN_HEIGHT * Y_UNIT

\* (mutant) a bird falls twenty times as fast
MoveBirdLeap(b, speed) ==
    IF ~b.active
    THEN b
    ELSE [b EXCEPT !.y = b.y + 20 * speed, !.active = ~OffScreen(b.y + 20 * speed)]

MoveBird(b, speed) ==
    IF ~b.active
    THEN b
    ELSE [b EXCEPT !.y = b.y + speed, !.active = ~OffScreen(b.y + speed)]

MoveBirds(birds, speed) == [i \in BirdIdx |-> MoveBird(birds[i], speed)]

\* the slots whose bird leaves the screen in this tick (score++ for each)
Reaped(birds, speed) ==
    {i \in BirdIdx : birds[i].active /\ OffScreen(birds[i].y + speed)}

\* updateGame(): lv_obj_add_flag(birds[i], LV_OBJ_FLAG_HIDDEN) for each bird
\* that leaves the screen
HideReaped(hid, birds, speed) ==
    [i \in BirdIdx |-> hid[i] \/ i \in Reaped(birds, speed)]

\* checkCollisions(): bounding-box overlap of the plane and one bird.
\* planePixelX = planeX * (SCREEN_WIDTH - PLANE_SIZE), compared in
\* 1/AXIS_UNIT pixel; the y comparison is in 1/Y_UNIT pixel.
Overlaps(px, b) ==
    LET planePixelX == px * (SCREEN_WIDTH - PLANE_SIZE)
        collisionX  == /\ planePixelX < (b.x + BIRD_SIZE) * AXIS_UNIT
                       /\ planePixelX + PLANE_SIZE * AXIS_UNIT > b.x * AXIS_UNIT
        collisionY  == /\ PLANE_Y * Y_UNIT < b.y + BIRD_SIZE * Y_UNIT
                       /\ (PLANE_Y + PLANE_SIZE) * Y_UNIT > b.y
    IN  collisionX /\ collisionY

\* (mutant) the test of the active flag is missing
BirdHitsAnySlot(px, b) == Overlaps(px, b)

\* checkCollisions(): inactive slots are skipped.
BirdHits(px, b) == b.active /\ Overlaps(px, b)

PlaneCollision(px, birds) == \E i \in BirdIdx : BirdHits(px, birds[i])

\* (mutant) the scan goes on after a collision was found
ScannedAll(px, birds) == BirdIdx

\* checkCollisions(): the slots the for loop reaches; the break ends it at
\* the first slot whose bird overlaps the plane.
Scanned(px, birds) ==
    {i \in BirdIdx : \A j \in BirdIdx : j < i => ~BirdHits(px, birds[j])}

\* checkCollisions(): the number of playMissSound() calls of one scan
MissCalls(px, birds) ==
    Cardinality({i \in Scanned(px, birds) : BirdHits(px, birds[i])})

\* no sound: what handleInput() and an updateGame() call in Game Over play
Silent == [hit |-> 0, miss |-> 0]

\* checkCollisions(): collisionY, the bird's vertical extent overlaps the
\* plane's
InRow(b) ==
    /\ PLANE_Y * Y_UNIT < b.y + BIRD_SIZE * Y_UNIT
    /\ (PLANE_Y + PLANE_SIZE) * Y_UNIT > b.y

NoneTested == [i \in BirdIdx |-> FALSE]

\* spawnBird(): the slot taken holds a new bird, not yet tested
Untested(tested, birds) ==
    IF FreeSlots(birds) = {}
    THEN tested
    ELSE [tested EXCEPT ![LowestOf(FreeSlots(birds))] = FALSE]

\* checkCollisions(): the active birds the scan reaches while they are in
\* the plane's row have been tested there
RowTested(tested, px, birds) ==
    [i \in BirdIdx |->
        tested[i] \/ (i \in Scanned(px, birds) /\ birds[i].active /\ InRow(birds[i]))]

\* (mutant) at the ceiling the speed starts over instead of being capped
DifficultyStepWrap(sc, speed, last) ==
    IF sc > 0 /\ sc % 10 = 0 /\ speed < MAX_SPEED /\ sc # last
    THEN <<IF speed + SPEED_INCREMENT >= MAX_SPEED THEN INITIAL_SPEED
                                                   ELSE speed + SPEED_INCREMENT, sc>>
    ELSE <<speed, last>>

\* (mutant) the test against lastDifficultyScore is missing
DifficultyStepUnguarded(sc, speed, last) ==
    IF sc > 0 /\ sc % 10 = 0 /\ speed < MAX_SPEED
    THEN <<Min(speed + SPEED_INCREMENT, MAX_SPEED), sc>>
    ELSE <<speed, last>>

\* (mutant) the first threshold is passed over
DifficultyStepLate(sc, speed, last) ==
    IF sc > 10 /\ sc % 10 = 0 /\ speed < MAX_SPEED /\ sc # last
    THEN <<Min(speed + SPEED_INCREMENT, MAX_SPEED), sc>>
    ELSE <<speed, last>>

\* updateGame(): the difficulty step; yields <<scrollSpeed, lastDifficultyScore>>.
DifficultyStep(sc, speed, last) ==
    IF sc > 0 /\ sc % 10 = 0 /\ speed < MAX_SPEED /\ sc # last
    THEN <<Min(speed + SPEED_INCREMENT, MAX_SPEED), sc>>
    ELSE <<speed, last>>

\* (mutant) the early return on gameOver is missing
TickRunsAlways(over) == TRUE

\* updateGame(): if(gameOver) return;
TickRuns(over) == ~over

\* updateGame() of BirdDodger, one call of the game loop; the session is
\* followed for maxFrames Playing ticks, esp_random() draws from rands.
BirdUpdateGame(maxFrames, rands) ==
    /\ game = "BirdDodger"
    /\ lastOp' = "tick"
    /\ IF ~TickRuns(gameOver)
       THEN /\ idleTicks < MaxIdleTicks
            /\ idleTicks' = idleTicks + 1
            /\ played' = Silent
            /\ UNCHANGED <<game, running, exitRequested, envVars, filter, score,
                           gameOver, pongVars, birdVars, playTicks>>
       ELSE /\ frameCounter < maxFrames
            /\ \E r \in rands :
                 LET frame   == frameCounter + 1
                     spawned == IF SpawnDue(frame) THEN SpawnBird(birdState, r)
                                                   ELSE birdState
                     shown   == IF SpawnDue(frame) THEN ShowSpawned(hiddenFlag, birdState)
                                                   ELSE hiddenFlag
                     moved   == MoveBirds(spawned, scrollSpeed)
                     sc      == score + Cardinality(Reaped(spawned, scrollSpeed))
                     roll    == EMAUpdate(filter, imuSample)
                     diff    == DifficultyStep(sc, scrollSpeed, lastDifficultyScore)
                 IN  /\ frameCounter' = frame
                     /\ birdState' = moved
                     /\ hiddenFlag' = HideReaped(shown, spawned, scrollSpeed)
                     /\ score' = sc
                     /\ gameOver' = PlaneCollision(planeX, moved)
                     /\ played' = [hit |-> 0, miss |-> MissCalls(planeX, moved)]
                     /\ testedInRow' = RowTested(IF SpawnDue(frame)
                                                 THEN Untested(testedInRow, birdState)
                                                 ELSE testedInRow, planeX, moved)
                     /\ filter' = roll
                     /\ planeX' = ActorStep(planeX, roll, PLANE_SPEED)
                     /\ scrollSpeed' = diff[1]
                     /\ lastDifficultyScore' = diff[2]
            /\ playTicks' = playTicks + 1
            /\ idleTicks' = 0
            /\ UNCHANGED <<game, running, exitRequested, envVars, pongVars>>

\* (mutant) the exit branch tests the wrong button
IsExitOnSelect(ev) == ev = "PressSelect"

\* handleInput(): which branch an event takes.
IsExit(ev) == ev = "PressAlt"

\* (mutant) the Select branch is never taken
IsRestartNever(ev, over) == FALSE

\* (mutant) the Select branch does not test gameOver
IsRestartAnytime(ev, over) == ev = "PressSelect"

IsRestart(ev, over) == ev = "PressSelect" /\ over

\* handleInput() of BirdDodger, one call of loop().
BirdHandleInput(ev) ==
    /\ game = "BirdDodger"
    /\ lastOp' = ev
    /\ played' = Silent
    /\ IF IsExit(ev)
       THEN /\ exitRequested' = TRUE
            /\ UNCHANGED <<game, running, envVars, filter, score, gameOver,
                           pongVars, birdVars, playTicks, idleTicks>>
       ELSE IF IsRestart(ev, gameOver)
       THEN /\ score' = 0
            /\ lastDifficultyScore' = 0
            /\ gameOver' = FALSE
            /\ scrollSpeed' = INITIAL_SPEED
            /\ frameCounter' = 0
            /\ birdState' = [i \in BirdIdx |-> [birdState[i] EXCEPT !.active = FALSE]]
            /\ hiddenFlag' = AllHidden
            /\ playTicks' = 0
            /\ idleTicks' = 0
            /\ UNCHANGED <<game, running, exitRequested, envVars, filter,
                           pongVars, planeX, testedInRow>>
       ELSE UNCHANGED <<game, running, exitRequested, envVars, filter, score,
                        gameOver, pongVars, birdVars, playTicks, idleTicks>>

\* ============================================================ PongGame

\* cos and sin of 0..44 degrees, in thousandths (index = degrees + 1)
CosMilli ==
  <<1000, 1000, 999, 999, 998, 996, 995, 993, 990, 988, 985, 982, 978, 974, 970,
     966, 961, 956, 951, 946, 940, 934, 927, 921, 914, 906, 899, 891, 883, 875,
     866, 857, 848, 839, 829, 819, 809, 799, 788, 777, 766, 755, 743, 731, 719>>

SinMilli ==
  <<0, 17, 35, 52, 70, 87, 105, 122, 139, 156, 174, 191, 208, 225, 242,
     259, 276, 292, 309, 326, 342, 358, 375, 391, 407, 423, 438, 454, 469, 485,
     500, 515, 530, 545, 559, 574, 588, 602, 616, 629, 643, 656, 669, 682, 695>>

\* resetBall(): float angle = (esp_random() % 90 - 45) * M_PI / 180.0f.
\* esp_random() is uint32_t, so "% 90 - 45" is computed in unsigned
\* arithmetic: for a remainder m >= 45 the angle is m - 45 degrees; for
\* m < 45 the difference wraps to 2^32 - (45 - m), and every such product
\* rounds to the same float, 74961320 rad, whose cosine and sine are
\* -0.735 and -0.679.  Yields <<cos, sin>> in thousandths.
AngleCosSin(r) ==
    LET m == r % 90
    IN  IF m >= 45 THEN <<CosMilli[m - 45 + 1], SinMilli[m - 45 + 1]>>
                   ELSE <<-735, -679>>

\* resetBall()
ResetBall(r) ==
    [x  |-> (SCREEN_WIDTH \div 2) * PX_UNIT,
     y  |-> (SCREEN_HEIGHT \div 2) * PX_UNIT,
     vx |-> RoundDiv(BALL_SPEED * AngleCosSin(r)[1], 1000),
     vy |-> RoundDiv(BALL_SPEED * AngleCosSin(r)[2], 1000)]

NoBall == [x |-> 0, y |-> 0, vx |-> 0, vy |-> 0]

\* checkCollisions(): float paddleTop = paddleY * (SCREEN_HEIGHT - PADDLE_HEIGHT)
PaddleTop(py) == (py * (SCREEN_HEIGHT - PADDLE_HEIGHT) * PX_UNIT) \div AXIS_UNIT

PaddleBottom(py) == PaddleTop(py) + PADDLE_HEIGHT * PX_UNIT

\* checkCollisions(): the tests of the three blocks
AtHorizontalWall(b) == b.y <= 0 \/ b.y >= (SCREEN_HEIGHT - BALL_SIZE) * PX_UNIT

AtPaddleSide(b) == b.x <= PADDLE_WIDTH * PX_UNIT

OnPaddle(b, py) == b.y >= PaddleTop(py) /\ b.y <= PaddleBottom(py)

PastLeftEdge(b) == b.x <= 0

AtRightWall(b) == b.x >= (SCREEN_WIDTH - BALL_SIZE) * PX_UNIT

\* spin: hitPos = (y - paddleTop) / PADDLE_HEIGHT; vy += (hitPos - 0.5f) * 0.5f
Spin(b, py) == RoundDiv(b.y - PaddleTop(py), 2 * PADDLE_HEIGHT) - (PX_UNIT \div 4)

\* checkCollisions(), block 1: top/bottom walls
WallBounce(b) == IF AtHorizontalWall(b) THEN [b EXCEPT !.vy = -b.vy] ELSE b

\* checkCollisions(), block 2: whether the paddle is hit, whether the ball is lost
PaddleHit(b, py) == AtPaddleSide(b) /\ OnPaddle(b, py)

\* (mutant) the ball is lost as soon as it passes the paddle's face
MissAtPaddleSide(b, py) == AtPaddleSide(b) /\ ~OnPaddle(b, py)

Miss(b, py) == AtPaddleSide(b) /\ ~OnPaddle(b, py) /\ PastLeftEdge(b)

\* (mutant) the ball is not put back on the paddle's face
PaddleBounceNoSnap(b, py) ==
    IF PaddleHit(b, py)
    THEN [b EXCEPT !.vx = -b.vx, !.vy = b.vy + Spin(b, py)]
    ELSE b

PaddleBounce(b, py) ==
    IF PaddleHit(b, py)
    THEN [b EXCEPT !.vx = -b.vx,
                   !.x  = PADDLE_WIDTH * PX_UNIT,
                   !.vy = b.vy + Spin(b, py)]
    ELSE b

\* (mutant) the last block also turns back a ball that was lost
RightBounceLost(b) ==
    IF AtRightWall(b)
    THEN [b EXCEPT !.vx = -b.vx, !.x = (SCREEN_WIDTH - BALL_SIZE) * PX_UNIT]
    ELSE IF PastLeftEdge(b) THEN [b EXCEPT !.vx = -b.vx, !.x = 0]
    ELSE b

\* checkCollisions(), block 3: right wall
RightBounce(b) ==
    IF AtRightWall(b)
    THEN [b EXCEPT !.vx = -b.vx, !.x = (SCREEN_WIDTH - BALL_SIZE) * PX_UNIT]
    ELSE b

\* checkCollisions(): the number of playHitSound() calls for the moved ball
\* b: one per block whose test holds (top/bottom wall, paddle, right wall)
HitCalls(b, py) ==
    (IF AtHorizontalWall(b) THEN 1 ELSE 0)
    + (IF PaddleHit(WallBounce(b), py) THEN 1 ELSE 0)
    + (IF AtRightWall(PaddleBounce(WallBounce(b), py)) THEN 1 ELSE 0)

\* (mutant) the move leaves x where it is
MoveBallVertical(b) == [b EXCEPT !.y = b.y + b.vy]

\* updateGame(): ballState.x += vx; ballState.y += vy
MoveBall(b) == [b EXCEPT !.x = b.x + b.vx, !.y = b.y + b.vy]

\* updateGame() of PongGame, one call of the game loop; the session is
\* followed for maxTicks Playing ticks.
PongUpdateGame(maxTicks) ==
    /\ game = "Pong"
    /\ lastOp' = "tick"
    /\ IF ~TickRuns(gameOver)
       THEN /\ idleTicks < MaxIdleTicks
            /\ idleTicks' = idleTicks + 1
            /\ played' = Silent
            /\ UNCHANGED <<game, running, exitRequested, envVars, filter, score,
                           gameOver, pongVars, birdVars, playTicks>>
       ELSE /\ playTicks < maxTicks
            /\ LET moved   == MoveBall(ballState)
                   walled  == WallBounce(moved)
                   pitch   == EMAUpdate(filter, imuSample)
               IN  /\ ballState' = RightBounce(PaddleBounce(walled, paddleY))
                   /\ score' = IF PaddleHit(walled, paddleY) THEN score + 1 ELSE score
                   /\ gameOver' = Miss(walled, paddleY)
                   /\ played' = [hit  |-> HitCalls(moved, paddleY),
                                 miss |-> IF Miss(walled, paddleY) THEN 1 ELSE 0]
                   /\ filter' = pitch
                   /\ paddleY' = ActorStep(paddleY, pitch, PADDLE_SPEED)
            /\ playTicks' = playTicks + 1
            /\ idleTicks' = 0
            /\ UNCHANGED <<game, running, exitRequested, envVars, birdVars>>

\* handleInput() of PongGame, one call of loop(); esp_random() draws from rands.
PongHandleInput(ev, rands) ==
    /\ game = "Pong"
    /\ lastOp' = ev
    /\ played' = Silent
    /\ IF IsExit(ev)
       THEN /\ exitRequested' = TRUE
            /\ UNCHANGED <<game, running, envVars, filter, score, gameOver,
                           pongVars, birdVars, playTicks, idleTicks>>
       ELSE IF IsRestart(ev, gameOver)
       THEN /\ score' = 0
            /\ gameOver' = FALSE
            /\ \E r \in rands : ballState' = ResetBall(r)
            /\ playTicks' = 0
            /\ idleTicks' = 0
            /\ UNCHANGED <<game, running, exitRequested, envVars, filter,
                           paddleY, birdVars>>
       ELSE UNCHANGED <<game, running, exitRequested, envVars, filter, score,
                        gameOver, pongVars, birdVars, playTicks, idleTicks>>

\* ============================================================ session host

\* onStart(): the filter is reset to the current reading, the thread started.
OnStart ==
    /\ ~running
    /\ ~exitRequested
    /\ autoSleep' = FALSE
    /\ listening' = TRUE
    /\ filter' = EMAReset(imuSample)
    /\ running' = TRUE
    /\ pc' = "test"
    /\ hostMode' = "active"
    /\ starts' = starts + 1
    /\ lastOp' = "onStart"
    /\ UNCHANGED <<game, exitRequested, envVars, score, gameOver, pongVars,
                   birdVars, played, playTicks, idleTicks, hostStep, rendered, snap,
                   lvWriters, writers, queue, clock>>

\* onStop(), called by the screen framework once a transition was requested.
OnStop ==
    /\ running
    /\ exitRequested
    /\ running' = FALSE
    /\ pc' = "done"
    /\ listening' = FALSE
    /\ autoSleep' = TRUE
    /\ hostMode' = "stopped"
    /\ lastOp' = "onStop"
    /\ UNCHANGED <<game, exitRequested, envVars, filter, score, gameOver,
                   pongVars, birdVars, played, playTicks, idleTicks, hostStep, starts,
                   rendered, snap, lvWriters, writers, queue, clock>>

\* The wearer tilts the device to another angle while Game Over is shown.
ImuMove ==
    /\ running
    /\ ~exitRequested
    /\ gameOver
    /\ imuMoves < MaxImuMoves
    /\ imuMoves' = imuMoves + 1
    /\ \E s \in Samples \ {imuSample} : imuSample' = s
    /\ lastOp' = "imu"
    /\ UNCHANGED <<game, running, exitRequested, filter, score, gameOver,
                   pongVars, birdVars, played, playTicks, idleTicks, threadVars>>

\* The wearer tilts the device to the other side during play, once, at a
\* tick on which a bird is due.
Steer ==
    /\ game = "BirdDodger"
    /\ running
    /\ ~exitRequested
    /\ ~gameOver
    /\ SpawnDue(frameCounter)
    /\ imuMoves = 0
    /\ imuMoves' = 1
    /\ \E s \in LongSamples \ {imuSample} : imuSample' = s
    /\ lastOp' = "imu"
    /\ UNCHANGED <<game, running, exitRequested, filter, score, gameOver,
                   pongVars, birdVars, played, playTicks, idleTicks, threadVars>>

\* The session fields that either context can write.
Fields ==
    {"running", "gameOver", "score", "lastDifficultyScore", "scrollSpeed",
     "frameCounter", "birdState", "ballState", "paddleY", "planeX"}

NoWriters == [f \in Fields |-> {}]

\* The LVGL objects as the constructor leaves them: label "Score: 0", no
\* position set.
NoFrame == [pos |-> <<>>, label |-> <<0, 0>>]

\* The game loop and loop() run while the screen runs and no transition
\* has been requested.
Scheduled == running /\ ~exitRequested

\* The tick count is a TickType_t (uint32_t), kept as <<high, low>> 16-bit
\* halves.  Before the first iteration nothing was measured.
NoClock == [now |-> <<0, 0>>, startTick |-> <<0, 0>>, passed |-> 0, slept |-> 0]

\* The state after construction (PongGame() / BirdDodger()), for the given
\* IMU readings and esp_random() values.
Constructed(samples, rands) ==
    /\ game \in {"Pong", "BirdDodger"}
    /\ running = FALSE
    /\ exitRequested = FALSE
    /\ imuSample \in samples
    /\ imuMoves = 0
    /\ filter = 0
    /\ score = 0
    /\ gameOver = FALSE
    /\ paddleY = AXIS_UNIT \div 2
    /\ planeX = AXIS_UNIT \div 2
    /\ IF game = "Pong" THEN \E r \in rands : ballState = ResetBall(r)
                        ELSE ballState = NoBall
    /\ birdState = NoBirds
    /\ hiddenFlag = AllHidden
    /\ testedInRow = NoneTested
    /\ played = Silent
    /\ lastDifficultyScore = 0
    /\ scrollSpeed = INITIAL_SPEED
    /\ frameCounter = 0
    /\ playTicks = 0
    /\ idleTicks = 0
    /\ lastOp = "construct"
    /\ pc = "none"
    /\ hostMode = "stopped"
    /\ hostStep = 0
    /\ starts = 0
    /\ autoSleep = TRUE
    /\ listening = FALSE
    /\ queue = <<>>
    /\ clock = NoClock
    /\ rendered = NoFrame
    /\ snap = NoFrame
    /\ lvWriters = {}
    /\ writers = NoWriters

\* ------------------------------------------------------------ Spec
\* Both games, every modelled tilt and random value, sessions of up to
\* MaxFrames / MaxPongTicks ticks, any number of restarts.
Init == Constructed(Samples, RandVals)

BirdTick == Scheduled /\ BirdUpdateGame(MaxFrames, RandVals) /\ UNCHANGED threadVars

PongTick == Scheduled /\ PongUpdateGame(MaxPongTicks) /\ UNCHANGED threadVars

BirdInput ==
    Scheduled /\ (\E ev \in Events : BirdHandleInput(ev)) /\ UNCHANGED threadVars

PongInput ==
    Scheduled /\ (\E ev \in Events : PongHandleInput(ev, RandVals)) /\ UNCHANGED threadVars

Next ==
    \/ OnStart
    \/ OnStop
    \/ ImuMove
    \/ BirdTick
    \/ PongTick
    \/ BirdInput
    \/ PongInput

Spec == Init /\ [][Next]_vars

\* ------------------------------------------------------------ SpecLong
\* Long sessions: the tilt changes at most once and esp_random() returns one
\* value, so that a BirdDodger session can be followed for LongFrames ticks,
\* through every difficulty level, and can end at any of its spawn ticks.
InitLong == Constructed(LongSamples, LongRandVals)

BirdTickLong ==
    Scheduled /\ BirdUpdateGame(LongFrames, LongRandVals) /\ UNCHANGED threadVars

PongTickLong == Scheduled /\ PongUpdateGame(LongFrames) /\ UNCHANGED threadVars

BirdInputLong ==
    Scheduled /\ (\E ev \in LongEvents : BirdHandleInput(ev)) /\ UNCHANGED threadVars

PongInputLong ==
    Scheduled /\ (\E ev \in LongEvents : PongHandleInput(ev, LongRandVals)) /\ UNCHANGED threadVars

NextLong ==
    \/ OnStart
    \/ Steer
    \/ BirdTickLong
    \/ PongTickLong
    \/ BirdInputLong
    \/ PongInputLong

SpecLong == InitLong /\ [][NextLong]_vars

\* ------------------------------------------------------------ SpecPool
\* The bird pool alone: spawnBird(), the movement loop of updateGame() and
\* the reset loop of handleInput(), called in any order, MaxPoolOps times.
\* The movement loop is run as often as between two spawn attempts, so that
\* birds leave the screen and slots below active ones fall free.
SpawnOps == {"spawnBird", "spawnBird(full)"}

\* Values returned by esp_random(): below and at the divisor of spawnBird(),
\* and large.
PoolRandVals == {60, 122, 2147483647}

\* one bird after n runs of the movement loop (each run's result is bound
\* before the next run is taken)
RECURSIVE BirdAfter(_, _, _)
BirdAfter(b, speed, n) ==
    IF n = 0 \/ ~b.active
    THEN b
    ELSE CHOOSE a \in {BirdAfter(q, speed, m) : q \in {MoveBird(b, speed)}, m \in {n - 1}} :
             TRUE

\* the slots whose bird left the screen between two pools
Left(before, after) == {i \in BirdIdx : before[i].active /\ ~after[i].active}

PoolSpawn ==
    /\ playTicks < MaxPoolOps
    /\ \E r \in PoolRandVals : birdState' = SpawnBird(birdState, r)
    /\ hiddenFlag' = ShowSpawned(hiddenFlag, birdState)
    /\ playTicks' = playTicks + 1
    /\ lastOp' = IF FreeSlots(birdState) = {} THEN "spawnBird(full)" ELSE "spawnBird"
    /\ UNCHANGED <<game, running, exitRequested, envVars, filter, score, gameOver,
                   pongVars, planeX, lastDifficultyScore, scrollSpeed,
                   frameCounter, testedInRow, played, idleTicks, threadVars>>

PoolMove ==
    /\ playTicks < MaxPoolOps
    /\ birdState' = [i \in BirdIdx |-> BirdAfter(birdState[i], scrollSpeed, SPAWN_INTERVAL)]
    /\ hiddenFlag' = [i \in BirdIdx |-> hiddenFlag[i] \/ i \in Left(birdState, birdState')]
    /\ score' = score + Cardinality(Left(birdState, birdState'))
    /\ playTicks' = playTicks + 1
    /\ lastOp' = "move"
    /\ UNCHANGED <<game, running, exitRequested, envVars, filter, gameOver,
                   pongVars, planeX, lastDifficultyScore, scrollSpeed,
                   frameCounter, testedInRow, played, idleTicks, threadVars>>

PoolReset ==
    /\ playTicks < MaxPoolOps
    /\ birdState' = [i \in BirdIdx |-> [birdState[i] EXCEPT !.active = FALSE]]
    /\ hiddenFlag' = AllHidden
    /\ playTicks' = playTicks + 1
    /\ lastOp' = "reset"
    /\ UNCHANGED <<game, running, exitRequested, envVars, filter, score, gameOver,
                   pongVars, planeX, lastDifficultyScore, scrollSpeed,
                   frameCounter, testedInRow, played, idleTicks, threadVars>>

InitPool == Constructed({0}, {0}) /\ game = "BirdDodger"

NextPool ==
    \/ PoolSpawn
    \/ PoolMove
    \/ PoolReset

SpecPool == InitPool /\ [][NextPool]_vars

\* ------------------------------------------------------------ SpecPong
\* Pong alone, launched at every angle resetBall() can produce, with the
\* watch held at the tilts of Samples or slightly tilted (0.1 g).
PongRandVals == 0 .. 89

PongSamples == Samples \cup {100}

InitPong == Constructed(PongSamples, PongRandVals) /\ game = "Pong"

NextPong ==
    \/ OnStart
    \/ OnStop
    \/ PongTick
    \/ PongInput

SpecPong == InitPong /\ [][NextPong]_vars

\* ------------------------------------------------------------ SpecSteer
\* Pong played with a moving wrist: the wearer changes the tilt once during
\* play, at the moment the ball is turned back by the right wall.
PongSteer ==
    /\ game = "Pong"
    /\ Scheduled
    /\ ~gameOver
    /\ lastOp = "tick"
    /\ ballState.x = (SCREEN_WIDTH - BALL_SIZE) * PX_UNIT
    /\ ballState.vx < 0
    /\ imuMoves = 0
    /\ imuMoves' = 1
    /\ \E s \in PongSamples \ {imuSample} : imuSample' = s
    /\ lastOp' = "imu"
    /\ UNCHANGED <<game, running, exitRequested, filter, score, gameOver,
                   pongVars, birdVars, played, playTicks, idleTicks, threadVars>>

NextSteer ==
    \/ OnStart
    \/ PongTick
    \/ PongSteer

SpecSteer == InitPong /\ [][NextSteer]_vars

\* ------------------------------------------------------------ SpecFair
\* The game loop under a fair schedule: while the screen runs, gameLoop()
\* goes on calling updateGame() (each iteration ends in a bounded delay), so
\* a tick that can be taken is eventually taken.  Sessions run from
\* construction until they are lost or MaxFairTicks ticks were played: Pong
\* (SpecFair) launched at every angle, with one tilt change; BirdDodger
\* (SpecFairBird) with every bird at the left edge and the watch held at a
\* tilt of Samples (far left: the plane meets the first bird).
PongTickFair == Scheduled /\ PongUpdateGame(MaxFairTicks) /\ UNCHANGED threadVars

NextFair ==
    \/ OnStart
    \/ PongTickFair
    \/ PongSteer

SpecFair == InitPong /\ [][NextFair]_vars /\ WF_vars(PongTickFair)

BirdTickFair ==
    Scheduled /\ BirdUpdateGame(MaxFairTicks, ThreadRandVals) /\ UNCHANGED threadVars

InitFairBird == Constructed(Samples, ThreadRandVals) /\ game = "BirdDodger"

NextFairBird ==
    \/ OnStart
    \/ BirdTickFair

SpecFairBird == InitFairBird /\ [][NextFairBird]_vars /\ WF_vars(BirdTickFair)

\* ------------------------------------------------------------ SpecQueue
\* The input queue between the buttons and loop(): while the screen listens,
\* button events are posted to its queue; each loop() call polls it once.
QueueEvents == {"PressSelect", "PressAlt", "ReleaseSelect"}

\* EventQueue::post(): a bounded queue; a post to a full queue adds nothing
QueuePost(q, ev) == IF Len(q) < QUEUE_SIZE THEN Append(q, ev) ELSE q

\* EventQueue::get(event, 0): the oldest event, at once; false when empty
QueueGet(q) == IF q = <<>> THEN "Empty" ELSE Head(q)

\* (mutant) handleInput() reads until the queue is empty
TakenAll(q) == <<>>

\* handleInput(): if(queue.get(event, 0)): one get per call
Taken(q) == IF q = <<>> THEN q ELSE Tail(q)

\* A button is pressed or released while the screen listens.
ButtonEvent ==
    /\ Scheduled
    /\ listening
    /\ \E ev \in QueueEvents : queue' = QueuePost(queue, ev)
    /\ lastOp' = "post"
    /\ UNCHANGED <<coreVars, pc, hostMode, hostStep, starts, autoSleep,
                   listening, rendered, snap, lvWriters, writers, clock>>

\* loop(): handleInput() with what the queue yields
QueueLoop ==
    /\ Scheduled
    /\ BirdHandleInput(QueueGet(queue)) \/ PongHandleInput(QueueGet(queue), ThreadRandVals)
    /\ queue' = Taken(queue)
    /\ UNCHANGED <<pc, hostMode, hostStep, starts, autoSleep, listening,
                   rendered, snap, lvWriters, writers, clock>>

BirdTickQueue ==
    /\ Scheduled
    /\ BirdUpdateGame(MaxQueueTicks, ThreadRandVals)
    /\ UNCHANGED threadVars

PongTickQueue == Scheduled /\ PongUpdateGame(MaxQueueTicks) /\ UNCHANGED threadVars

InitQueue == Constructed(ThreadSamples, ThreadRandVals)

NextQueue ==
    \/ OnStart
    \/ OnStop
    \/ ButtonEvent
    \/ QueueLoop
    \/ BirdTickQueue
    \/ PongTickQueue

SpecQueue == InitQueue /\ [][NextQueue]_vars

\* ------------------------------------------------------------ SpecThreads
\* The two contexts of a screen.  The UI context runs onStart() and onStop()
\* statement by statement and, while the screen is active, loop(); the game
\* thread runs gameLoop().  The screen can be stopped at any time and, if no
\* transition was requested, started again.

\* (int) casts truncate toward zero
Trunc(a, b) == IF a >= 0 THEN a \div b ELSE -((-a) \div b)

\* updateUI() of BirdDodger: an inactive bird is given no position
BirdPos(i) ==
    IF birdState[i].active
    THEN <<birdState[i].x, Trunc(birdState[i].y, Y_UNIT)>>
    ELSE <<>>

\* updateUI(), the lv_obj_set_pos() calls: the positions the objects get
PosView ==
    IF game = "Pong"
    THEN <<Trunc(ballState.x, PX_UNIT), Trunc(ballState.y, PX_UNIT),
           (paddleY * (SCREEN_HEIGHT - PADDLE_HEIGHT)) \div AXIS_UNIT>>
    ELSE <<(planeX * (SCREEN_WIDTH - PLANE_SIZE)) \div AXIS_UNIT>>
         \o [i \in 1 .. MAX_BIRDS |-> BirdPos(i - 1)]

\* updateUI(), the lv_label_set_text() call: score and "Game Over!"
LabelView == <<score, IF gameOver THEN 1 ELSE 0>>

\* what updateUI() renders of the current state
Frame == [pos |-> PosView, label |-> LabelView]

\* the fields of Fields, by name
SessionRec ==
    [running             |-> running,
     gameOver            |-> gameOver,
     score               |-> score,
     lastDifficultyScore |-> lastDifficultyScore,
     scrollSpeed         |-> scrollSpeed,
     frameCounter        |-> frameCounter,
     birdState           |-> birdState,
     ballState           |-> ballState,
     paddleY             |-> paddleY,
     planeX              |-> planeX]

Wrote(w, fs, ctx) == [f \in Fields |-> IF f \in fs THEN w[f] \cup {ctx} ELSE w[f]]

\* updateGame(): the fields a call assigns: none in Game Over; otherwise the
\* ball and paddle (Pong) or frameCounter and planeX (BirdDodger) always,
\* and score, gameOver, birdState, scrollSpeed, lastDifficultyScore when
\* their statement is reached (each such statement changes the value).
TickWrites ==
    IF gameOver
    THEN {}
    ELSE (IF game = "Pong" THEN {"ballState", "paddleY"}
                           ELSE {"frameCounter", "planeX"})
         \cup {f \in Fields : SessionRec'[f] # SessionRec[f]}

\* handleInput(): the fields the restart branch assigns
RestartWrites ==
    IF game = "Pong"
    THEN {"score", "gameOver", "ballState"}
    ELSE {"score", "lastDifficultyScore", "gameOver", "scrollSpeed",
          "frameCounter", "birdState"}

\* spawnBird() and the movement loop show / hide a bird's object
TickTouchesLvgl ==
    game = "BirdDodger" /\ \E i \in BirdIdx : birdState'[i].active # birdState[i].active

\* (mutant) the loop never looks at the flag
LoopContinuesAlways(run) == TRUE

\* gameLoop(): while(running)
LoopContinues(run) == run

\* The iteration about to begin is within the modelled ticks.
CanTick ==
    IF gameOver THEN idleTicks < MaxIdleTicks
    ELSE IF game = "Pong" THEN playTicks < MaxThreadTicks
    ELSE frameCounter < MaxThreadTicks

\* gameLoop(): the loop test
ThreadTest ==
    /\ pc = "test"
    /\ IF LoopContinues(running) THEN CanTick /\ pc' = "update"
                                 ELSE pc' = "done"
    /\ lastOp' = "test"
    /\ UNCHANGED <<coreVars, hostMode, hostStep, starts, autoSleep, listening, queue,
                   rendered, snap, lvWriters, writers, clock>>

\* gameLoop(): updateGame()
ThreadUpdate ==
    /\ pc = "update"
    /\ BirdUpdateGame(MaxThreadTicks, ThreadRandVals) \/ PongUpdateGame(MaxThreadTicks)
    /\ pc' = "render"
    /\ snap' = Frame'
    /\ writers' = Wrote(writers, TickWrites, "sim")
    /\ lvWriters' = IF TickTouchesLvgl THEN lvWriters \cup {"sim"} ELSE lvWriters
    /\ UNCHANGED <<hostMode, hostStep, starts, autoSleep, listening, queue, rendered, clock>>

\* gameLoop(): updateUI(), the lv_obj_set_pos() calls
ThreadRender ==
    /\ pc = "render"
    /\ rendered' = [rendered EXCEPT !.pos = PosView]
    /\ lvWriters' = lvWriters \cup {"sim"}
    /\ pc' = "label"
    /\ lastOp' = "render"
    /\ UNCHANGED <<coreVars, hostMode, hostStep, starts, autoSleep, listening, queue,
                   snap, writers, clock>>

\* gameLoop(): updateUI(), the lv_label_set_text() call, and the frame delay
ThreadLabel ==
    /\ pc = "label"
    /\ rendered' = [rendered EXCEPT !.label = LabelView]
    /\ lvWriters' = lvWriters \cup {"sim"}
    /\ pc' = "test"
    /\ lastOp' = "label"
    /\ UNCHANGED <<coreVars, hostMode, hostStep, starts, autoSleep, listening, queue,
                   snap, writers, clock>>

GameThread == ThreadTest \/ ThreadUpdate \/ ThreadRender \/ ThreadLabel

\* (mutant) the thread is started before auto-sleep is switched off
StartStepsSleepLast == <<"listen", "resetFilter", "setRunning", "startThread", "sleepOff">>

\* onStart(), statement by statement
StartSteps == <<"sleepOff", "listen", "resetFilter", "setRunning", "startThread">>

\* (mutant) gameThread.stop(0) is not called
StopStepsNoJoin == <<"clearRunning", "unlisten", "sleepOn">>

\* onStop(), statement by statement
StopSteps == <<"clearRunning", "stopThread", "unlisten", "sleepOn">>

\* ThreadedClosure::start(): a thread that is not running is created
ThreadStart(p) == IF p \in {"none", "done"} THEN "test" ELSE p

\* ThreadedClosure::stop(): returns once the thread has terminated
StopReturns(p) == p \in {"none", "done"}

\* one statement of onStart() / onStop()
HostDo(op) ==
    /\ op = "stopThread" => StopReturns(pc)
    /\ autoSleep' = IF op = "sleepOff" THEN FALSE
                    ELSE IF op = "sleepOn" THEN TRUE ELSE autoSleep
    /\ listening' = IF op = "listen" THEN TRUE
                    ELSE IF op = "unlisten" THEN FALSE ELSE listening
    /\ filter' = IF op = "resetFilter" THEN EMAReset(imuSample) ELSE filter
    /\ running' = IF op = "setRunning" THEN TRUE
                  ELSE IF op = "clearRunning" THEN FALSE ELSE running
    /\ pc' = IF op = "startThread" THEN ThreadStart(pc) ELSE pc
    /\ lvWriters' = IF op = "startThread" /\ pc' # pc THEN {} ELSE lvWriters
    /\ writers' = IF op = "startThread" /\ pc' # pc THEN NoWriters
                  ELSE IF op = "clearRunning" THEN Wrote(writers, {"running"}, "ui")
                  ELSE writers

\* The screen framework calls onStart().
OnStartCall ==
    /\ hostMode = "stopped"
    /\ ~exitRequested
    /\ starts < MaxStarts
    /\ hostMode' = "onStart"
    /\ hostStep' = 1
    /\ starts' = starts + 1
    /\ lastOp' = "onStart"
    /\ UNCHANGED <<coreVars, pc, autoSleep, listening, queue, rendered, snap,
                   lvWriters, writers, clock>>

\* The screen framework calls onStop().
OnStopCall ==
    /\ hostMode = "active"
    /\ hostMode' = "onStop"
    /\ hostStep' = 1
    /\ lastOp' = "onStop"
    /\ UNCHANGED <<coreVars, pc, starts, autoSleep, listening, queue, rendered, snap,
                   lvWriters, writers, clock>>

\* The UI context runs the next statement of onStart() / onStop().
HostRun ==
    /\ hostMode \in {"onStart", "onStop"}
    /\ LET steps == IF hostMode = "onStart" THEN StartSteps ELSE StopSteps
       IN  /\ HostDo(steps[hostStep])
           /\ lastOp' = steps[hostStep]
           /\ IF hostStep = Len(steps)
              THEN /\ hostMode' = IF hostMode = "onStart" THEN "active" ELSE "stopped"
                   /\ hostStep' = 0
              ELSE /\ hostMode' = hostMode
                   /\ hostStep' = hostStep + 1
    /\ UNCHANGED <<game, exitRequested, envVars, score, gameOver, pongVars,
                   birdVars, played, playTicks, idleTicks, starts, rendered, snap, queue, clock>>

\* loop(): handleInput(), in the UI context; the restart branch of
\* BirdDodger hides the birds' objects.
ThreadLoop ==
    /\ hostMode = "active"
    /\ ~exitRequested
    /\ \E ev \in ThreadEvents :
         /\ ev # "Empty" => listening
         /\ BirdHandleInput(ev) \/ PongHandleInput(ev, ThreadRandVals)
         /\ writers' = IF IsRestart(ev, gameOver)
                       THEN Wrote(writers, RestartWrites, "ui") ELSE writers
         /\ lvWriters' = IF IsRestart(ev, gameOver) /\ game = "BirdDodger"
                         THEN lvWriters \cup {"ui"} ELSE lvWriters
    /\ UNCHANGED <<pc, hostMode, hostStep, starts, autoSleep, listening, queue,
                   rendered, snap, clock>>

InitThreads == Constructed(ThreadSamples, ThreadRandVals)

NextThreads ==
    \/ OnStartCall
    \/ OnStopCall
    \/ HostRun
    \/ ThreadLoop
    \/ ThreadTest
    \/ ThreadUpdate
    \/ ThreadRender
    \/ ThreadLabel

\* The game thread is scheduled fairly.
SpecThreads == InitThreads /\ [][NextThreads]_vars /\ WF_vars(GameThread)

\* ------------------------------------------------------------ SpecRestart
\* The restart branch of handleInput(), run by the UI context statement by
\* statement while the game thread goes on calling updateGame().

\* handleInput() of BirdDodger, the restart block
BirdRestartSteps ==
    <<"score", "lastDifficultyScore", "gameOver", "scrollSpeed", "frameCounter">>
    \o [k \in 1 .. 2 * MAX_BIRDS |-> IF k % 2 = 1 THEN "deactivate" ELSE "hide"]

\* handleInput() of PongGame, the restart block, resetBall() included (its
\* two velocity assignments are one step)
PongRestartSteps == <<"score", "gameOver", "ballX", "ballY", "velocity">>

RestartSteps == IF game = "Pong" THEN PongRestartSteps ELSE BirdRestartSteps

\* the bird slot statement k of BirdRestartSteps is about
RestartSlot(k) == (k - 6) \div 2

\* one statement of the restart block
RestartDo(op, i, r) ==
    /\ score' = IF op = "score" THEN 0 ELSE score
    /\ lastDifficultyScore' = IF op = "lastDifficultyScore" THEN 0 ELSE lastDifficultyScore
    /\ gameOver' = IF op = "gameOver" THEN FALSE ELSE gameOver
    /\ scrollSpeed' = IF op = "scrollSpeed" THEN INITIAL_SPEED ELSE scrollSpeed
    /\ frameCounter' = IF op = "frameCounter" THEN 0 ELSE frameCounter
    /\ birdState' = IF op = "deactivate" THEN [birdState EXCEPT ![i].active = FALSE]
                    ELSE birdState
    /\ hiddenFlag' = IF op = "hide" THEN [hiddenFlag EXCEPT ![i] = TRUE] ELSE hiddenFlag
    /\ ballState' =
         IF op = "ballX" THEN [ballState EXCEPT !.x = ResetBall(r).x]
         ELSE IF op = "ballY" THEN [ballState EXCEPT !.y = ResetBall(r).y]
         ELSE IF op = "velocity"
              THEN [ballState EXCEPT !.vx = ResetBall(r).vx, !.vy = ResetBall(r).vy]
         ELSE ballState

\* A run is followed until a restart block has returned.
Followed == lastOp # "restarted"

\* handleInput(): a Select press is read in Game Over; the restart block is entered
RestartBegin ==
    /\ Scheduled
    /\ Followed
    /\ hostMode = "active"
    /\ IsRestart("PressSelect", gameOver)
    /\ hostMode' = "restart"
    /\ hostStep' = 1
    /\ playTicks' = 0
    /\ lastOp' = "PressSelect"
    /\ UNCHANGED <<game, running, exitRequested, envVars, filter, score, gameOver,
                   pongVars, birdVars, played, idleTicks, pc, starts, autoSleep, listening,
                   queue, clock, rendered, snap, lvWriters, writers>>

\* The UI context runs the next statement of the restart block.
RestartRun ==
    /\ hostMode = "restart"
    /\ \E r \in ThreadRandVals : RestartDo(RestartSteps[hostStep], RestartSlot(hostStep), r)
    /\ IF hostStep = Len(RestartSteps)
       THEN hostMode' = "active" /\ hostStep' = 0 /\ lastOp' = "restarted"
       ELSE hostMode' = hostMode /\ hostStep' = hostStep + 1 /\ lastOp' = "restart"
    /\ UNCHANGED <<game, running, exitRequested, envVars, filter, paddleY, planeX,
                   testedInRow, played, playTicks, idleTicks, pc, starts, autoSleep, listening, queue,
                   clock, rendered, snap, lvWriters, writers>>

BirdTickRestart ==
    /\ Scheduled
    /\ Followed
    /\ BirdUpdateGame(MaxThreadTicks, ThreadRandVals)
    /\ UNCHANGED threadVars

PongTickRestart ==
    /\ Scheduled
    /\ Followed
    /\ PongUpdateGame(MaxThreadTicks)
    /\ UNCHANGED threadVars

InitRestart == Constructed(ThreadSamples, ThreadRandVals)

NextRestart ==
    \/ OnStart
    \/ RestartBegin
    \/ RestartRun
    \/ BirdTickRestart
    \/ PongTickRestart

SpecRestart == InitRestart /\ [][NextRestart]_vars

\* ------------------------------------------------------------ SpecClock
\* The frame clock of gameLoop(): the RTOS tick count is read before the
\* update pass and after it, and the thread sleeps for what is left of the
\* frame.  The pass takes one of PassTicks RTOS ticks; the session can start
\* right after boot or shortly before the 32-bit tick count wraps.
PassTicks == {0, 5, 16, 20}

LateStart == <<65535, 65500>>

Half == 65536

\* uint32_t addition and subtraction on <<high, low>> halves
Add32(a, n) == <<(a[1] + (a[2] + n) \div Half) % Half, (a[2] + n) % Half>>

Sub32(a, b) ==
    <<(a[1] - b[1] - (IF a[2] < b[2] THEN 1 ELSE 0) + Half) % Half,
      (a[2] - b[2] + Half) % Half>>

\* TickType_t elapsed = xTaskGetTickCount() - startTick
Elapsed(now, start) == Sub32(now, start)

\* (mutant) the sleep is computed without the test
DelayUnguarded(el) == frameTime - el[2]

\* if(elapsed < frameTime) vTaskDelay(frameTime - elapsed); 0: no delay
Delay(el) == IF el[1] = 0 /\ el[2] < frameTime THEN frameTime - el[2] ELSE 0

\* The device has been up for a long time when the screen is opened.
Uptime ==
    /\ pc = "none"
    /\ clock.now = <<0, 0>>
    /\ clock' = [clock EXCEPT !.now = LateStart]
    /\ lastOp' = "uptime"
    /\ UNCHANGED <<coreVars, pc, hostMode, hostStep, starts, autoSleep,
                   listening, queue, rendered, snap, lvWriters, writers>>

\* gameLoop(): while(running) { startTick = xTaskGetTickCount();
ClockTest ==
    /\ pc = "test"
    /\ IF LoopContinues(running)
       THEN /\ pc' = "update"
            /\ clock' = [clock EXCEPT !.startTick = clock.now]
       ELSE /\ pc' = "done"
            /\ UNCHANGED clock
    /\ lastOp' = "test"
    /\ UNCHANGED <<coreVars, hostMode, hostStep, starts, autoSleep, listening,
                   queue, rendered, snap, lvWriters, writers>>

\* gameLoop(): updateGame(); updateUI(); the pass takes d RTOS ticks
ClockPass ==
    /\ pc = "update"
    /\ BirdUpdateGame(MaxClockTicks, ThreadRandVals) \/ PongUpdateGame(MaxClockTicks)
    /\ \E d \in PassTicks :
         clock' = [clock EXCEPT !.now = Add32(clock.now, d), !.passed = d]
    /\ rendered' = Frame'
    /\ pc' = "delay"
    /\ UNCHANGED <<hostMode, hostStep, starts, autoSleep, listening, queue,
                   snap, lvWriters, writers>>

\* gameLoop(): elapsed = xTaskGetTickCount() - startTick; the delay, if any
ClockDelay ==
    /\ pc = "delay"
    /\ clock' = [clock EXCEPT
                    !.slept = Delay(Elapsed(clock.now, clock.startTick)),
                    !.now   = Add32(clock.now,
                                    Delay(Elapsed(clock.now, clock.startTick)))]
    /\ pc' = "test"
    /\ lastOp' = "delay"
    /\ UNCHANGED <<coreVars, hostMode, hostStep, starts, autoSleep, listening,
                   queue, rendered, snap, lvWriters, writers>>

InitClock == Constructed(ThreadSamples, ThreadRandVals)

NextClock ==
    \/ Uptime
    \/ OnStart
    \/ ClockTest
    \/ ClockPass
    \/ ClockDelay

SpecClock == InitClock /\ [][NextClock]_vars

\* ------------------------------------------------------------ SpecEma
\* The filter alone: the watch is held at a tilt while the filter is updated
\* with its reading, and is moved to another tilt once.  Readings and filter
\* values are in millionths of g here, so that the rounding of the model's
\* arithmetic is, like that of a float, far below the tilts compared.  The
\* tilts are nonzero: near 0 a float resolves far finer than a millionth.
EmaSamples == {-2000000, -300000, 150000, 2000000}

Abs(v) == IF v < 0 THEN -v ELSE v

\* n updates with the same sample
RECURSIVE EMAAfter(_, _, _)
EMAAfter(current, sample, n) ==
    IF n = 0 \/ current = sample
    THEN current
    ELSE EMAAfter(EMAUpdate(current, sample), sample, n - 1)

\* rollFilter.update(sample.accelX) / pitchFilter.update(sample.accelY)
EmaStep ==
    /\ playTicks < MaxEmaSteps
    /\ filter' = EMAUpdate(filter, imuSample)
    /\ playTicks' = playTicks + 1
    /\ lastOp' = "ema"
    /\ UNCHANGED <<game, running, exitRequested, envVars, score, gameOver,
                   pongVars, birdVars, played, idleTicks, threadVars>>

\* The wearer moves the watch to another tilt.
EmaRetilt ==
    /\ imuMoves = 0
    /\ imuMoves' = 1
    /\ \E s \in EmaSamples \ {imuSample} : imuSample' = s
    /\ playTicks' = 0
    /\ lastOp' = "imu"
    /\ UNCHANGED <<game, running, exitRequested, filter, score, gameOver,
                   pongVars, birdVars, played, idleTicks, threadVars>>

InitEma == Constructed(EmaSamples, {0})

NextEma ==
    \/ EmaStep
    \/ EmaRetilt

SpecEma == InitEma /\ [][NextEma]_vars

\* ============================================================ properties

\* The fields of a session (both games).
sessionFields ==
    <<score, gameOver, ballState, paddleY, planeX, birdState,
      lastDifficultyScore, scrollSpeed, frameCounter>>

\* C1: a call of updateGame() entered with gameOver true changes no session
\* field (score, ball, birds, frameCounter, scrollSpeed, lastDifficultyScore,
\* paddle / plane position), however many such calls follow each other.
C1_FrozenWhileGameOver ==
    [][(gameOver /\ lastOp' = "tick") => UNCHANGED sessionFields]_vars

\* C1 witness: MaxIdleTicks consecutive ticks have run in Game Over.
C1_Witness == gameOver /\ lastOp = "tick" /\ idleTicks = MaxIdleTicks

\* C2: the number of active slots never exceeds MAX_BIRDS, and a call of
\* spawnBird() made while all MAX_BIRDS slots are active changes no slot.
C2_PoolCapacity ==
    /\ [](DOMAIN birdState = BirdIdx /\ ActiveCount(birdState) <= MAX_BIRDS)
    /\ [][(ActiveCount(birdState) = MAX_BIRDS /\ lastOp' \in SpawnOps)
            => birdState' = birdState]_vars

\* C2 witness: spawnBird() has been called on a full pool.
C2_Witness == lastOp = "spawnBird(full)" /\ ActiveCount(birdState) = MAX_BIRDS

\* |v| = speed, to within 0.002 pixel per tick
SpeedIs(b, speed) ==
    /\ b.vx * b.vx + b.vy * b.vy >= (speed - 2) * (speed - 2)
    /\ b.vx * b.vx + b.vy * b.vy <= (speed + 2) * (speed + 2)

\* C3: handling a Select press while gameOver leaves the reset state: in
\* BirdDodger score = 0, lastDifficultyScore = 0, gameOver = false,
\* scrollSpeed = INITIAL_SPEED, frameCounter = 0 and every slot inactive; in
\* Pong score = 0, gameOver = false, the ball at (64, 64) with speed BALL_SPEED.
C3_RestartResets ==
    [][(gameOver /\ lastOp' = "PressSelect") =>
         /\ score' = 0
         /\ ~gameOver'
         /\ game = "BirdDodger" =>
              /\ lastDifficultyScore' = 0
              /\ scrollSpeed' = INITIAL_SPEED
              /\ frameCounter' = 0
              /\ \A i \in BirdIdx : ~birdState'[i].active
         /\ game = "Pong" =>
              /\ ballState'.x = (SCREEN_WIDTH \div 2) * PX_UNIT
              /\ ballState'.y = (SCREEN_HEIGHT \div 2) * PX_UNIT
              /\ SpeedIs(ballState', BALL_SPEED)]_vars

\* C3 witness: a BirdDodger session was restarted after birds had moved (the
\* slots keep their coordinates).
C3_Witness ==
    /\ game = "BirdDodger"
    /\ lastOp = "PressSelect"
    /\ ~gameOver
    /\ frameCounter = 0
    /\ \E i \in BirdIdx : birdState[i].y > -BIRD_SIZE * Y_UNIT

\* C4: a session starts Playing; gameOver goes from false to true only in a
\* tick and from true to false only by a Select press handled while gameOver;
\* a Select press while Playing, any release and any non-Input event change
\* nothing.
C4_PhaseTransitions ==
    /\ [](lastOp = "construct" => ~gameOver)
    /\ [][/\ (~gameOver /\ gameOver') => lastOp' = "tick"
          /\ (gameOver /\ ~gameOver') => lastOp' = "PressSelect"
          /\ (\/ (~gameOver /\ lastOp' = "PressSelect")
              \/ lastOp' \in {"ReleaseSelect", "ReleaseAlt", "NonInput"})
               => UNCHANGED <<sessionFields, filter, running, exitRequested>>]_vars

\* C4 witness: in Pong a Select press has been handled while Playing, after
\* ticks that moved the paddle.
C4_Witness ==
    /\ game = "Pong"
    /\ lastOp = "PressSelect"
    /\ ~gameOver
    /\ playTicks > 0
    /\ score = 0
    /\ paddleY # AXIS_UNIT \div 2

\* C5: in BirdDodger a tick ends in gameOver exactly if, when
\* checkCollisions() runs, the plane's box overlaps the box of an active
\* bird; a slot that is not active never ends the session.
C5_CollisionEndsSession ==
    [][(game = "BirdDodger" /\ ~gameOver /\ lastOp' = "tick") =>
         (gameOver' <=> \E i \in BirdIdx :
                           birdState'[i].active /\ Overlaps(planeX, birdState'[i]))]_vars

\* C5 witness: play goes on in a tick after which an inactive slot lies on
\* the plane (the bird of the collision that ended the previous session).
C5_Witness ==
    /\ game = "BirdDodger"
    /\ lastOp = "tick"
    /\ ~gameOver
    /\ \E i \in BirdIdx : ~birdState[i].active /\ Overlaps(planeX, birdState[i])

\* C6: in Pong, when the moved ball is at x <= PADDLE_WIDTH with its y in
\* [paddleTop, paddleTop + PADDLE_HEIGHT], the tick leaves vx with flipped
\* sign, x = PADDLE_WIDTH, score one higher and gameOver false.
C6_PaddleHit ==
    [][(game = "Pong" /\ ~gameOver /\ lastOp' = "tick"
          /\ ballState.x + ballState.vx <= PADDLE_WIDTH * PX_UNIT
          /\ ballState.y + ballState.vy >= PaddleTop(paddleY)
          /\ ballState.y + ballState.vy <= PaddleTop(paddleY) + PADDLE_HEIGHT * PX_UNIT) =>
         /\ ballState'.vx = -ballState.vx
         /\ ballState.vx # 0
         /\ ballState'.x = PADDLE_WIDTH * PX_UNIT
         /\ score' = score + 1
         /\ ~gameOver']_vars

\* C6 witness: the ball has just been returned by the paddle.
C6_Witness ==
    /\ game = "Pong"
    /\ lastOp = "tick"
    /\ score > 0
    /\ ballState.x = PADDLE_WIDTH * PX_UNIT
    /\ ballState.vx > 0

\* C7: in Pong a tick ends in gameOver exactly if the moved ball is at
\* x <= 0 with its y outside [paddleTop, paddleTop + PADDLE_HEIGHT]; the score
\* is then unchanged, and the ball of a session that just ended is never at
\* 0 < x.
C7_MissEndsSession ==
    [][(game = "Pong" /\ ~gameOver /\ lastOp' = "tick") =>
         /\ gameOver' <=>
              /\ ballState.x + ballState.vx <= 0
              /\ \/ ballState.y + ballState.vy < PaddleTop(paddleY)
                 \/ ballState.y + ballState.vy > PaddleTop(paddleY) + PADDLE_HEIGHT * PX_UNIT
         /\ gameOver' => (score' = score /\ ballState'.x <= 0)]_vars

\* C7 witness: the tick in which the ball was lost, after at least one return.
C7_Witness ==
    /\ game = "Pong"
    /\ lastOp = "tick"
    /\ gameOver
    /\ idleTicks = 0
    /\ score > 0
    /\ ballState.x <= 0

\* the slots a tick has activated
NewlyActive == {i \in BirdIdx : ~birdState[i].active /\ birdState'[i].active}

C9_Clamped ==
    /\ paddleY >= 0 /\ paddleY <= AXIS_UNIT
    /\ planeX >= 0 /\ planeX <= AXIS_UNIT
    /\ scrollSpeed >= INITIAL_SPEED /\ scrollSpeed <= MAX_SPEED

\* C9 witness: the top speed is reached while the filtered reading lies
\* outside the mapped range.
C9_Witness ==
    /\ game = "BirdDodger"
    /\ lastOp = "tick"
    /\ scrollSpeed = MAX_SPEED
    /\ (filter > HALF_RANGE \/ filter < -HALF_RANGE)

\* C10: scrollSpeed is raised at most once per score that is a positive
\* multiple of 10: in the tick in which score becomes such a value while
\* scrollSpeed < MAX_SPEED it grows by SPEED_INCREMENT (capped) and
\* lastDifficultyScore becomes score; in a tick that leaves score unchanged
\* scrollSpeed is unchanged; it is never raised at score 0 or at a score
\* that is no multiple of 10.
C10_OneStepPerThreshold ==
    [][(game = "BirdDodger" /\ lastOp' = "tick") =>
         /\ (score' # score /\ score' > 0 /\ score' % 10 = 0 /\ scrollSpeed < MAX_SPEED) =>
              /\ scrollSpeed' = Min(scrollSpeed + SPEED_INCREMENT, MAX_SPEED)
              /\ lastDifficultyScore' = score'
         /\ score' = score => scrollSpeed' = scrollSpeed
         /\ scrollSpeed' # scrollSpeed =>
              (score' > 0 /\ score' % 10 = 0 /\ scrollSpeed' > scrollSpeed)]_vars

\* C10 witness: the second threshold has been passed, one step each.
C10_Witness ==
    /\ game = "BirdDodger"
    /\ lastOp = "tick"
    /\ score = 20
    /\ lastDifficultyScore = 20
    /\ scrollSpeed = INITIAL_SPEED + 2 * SPEED_INCREMENT

\* C11: within a session neither score nor scrollSpeed decreases: outside
\* the restart handler score changes by +1 only and scrollSpeed only
\* upward; they fall (to 0 and INITIAL_SPEED) only in the restart handler.
C11_MonotoneInSession ==
    [][/\ lastOp' # "PressSelect" =>
            /\ score' \in {score, score + 1}
            /\ scrollSpeed' >= scrollSpeed
       /\ (score' < score \/ scrollSpeed' < scrollSpeed) =>
            /\ lastOp' = "PressSelect"
            /\ gameOver
            /\ score' = 0
            /\ scrollSpeed' = INITIAL_SPEED]_vars

\* C11 witness: the speed was raised in a session and the score grew on.
C11_Witness ==
    /\ game = "BirdDodger"
    /\ lastOp = "tick"
    /\ score = 11
    /\ scrollSpeed = INITIAL_SPEED + SPEED_INCREMENT

C13_UiNeverTouchesLvgl == "ui" \notin lvWriters

\* C14 (as claimed): every LVGL object update of the two screens is executed
\* in the UI task, none in the game thread.
C14_LvglOnlyInUiTask == "sim" \notin lvWriters

\* C15: updateGame() and updateUI() run only while the screen is active: a
\* call is made only after some onStart() has set running and started the
\* thread and before the onStop() that follows has returned, and once
\* onStop() has returned the thread has terminated; this holds over
\* repeated onStart() / onStop() calls.
C15_RunsOnlyWhileActive ==
    /\ [][(pc \in {"update", "render", "label"} /\ pc' # pc) =>
            (hostMode \in {"active", "onStop"} /\ starts > 0)]_vars
    /\ [](hostMode = "stopped" => pc \in {"none", "done"})

\* C15 witness: a tick of the second session of a screen.
C15_Witness ==
    /\ starts = 2
    /\ hostMode = "active"
    /\ lastOp = "tick"
    /\ pc = "render"

\* C16: once running is false no loop test succeeds, so the thread finishes
\* at most the iteration in progress, and under fair scheduling of the
\* thread gameLoop() returns; in Playing and in Game Over alike.
C16_LoopTerminates ==
    /\ [][(pc = "test" /\ ~running) => pc' \in {"test", "done"}]_vars
    /\ (~running /\ pc \in {"test", "update", "render", "label"}) ~> (pc = "done")

\* C16 witness: the loop has returned from a session that was in Game Over.
C16_Witness ==
    /\ pc = "done"
    /\ lastOp = "test"
    /\ ~running
    /\ gameOver

\* C17: auto-sleep is off whenever the game thread exists and has not
\* terminated, and is on again whenever an onStop() has returned.
C17_NoSleepWhileThreadRuns ==
    /\ pc \in {"test", "update", "render", "label"} => ~autoSleep
    /\ (hostMode = "stopped" /\ starts > 0) => autoSleep

\* C17 witness: onStop() has just re-enabled auto-sleep, the thread is gone.
C17_Witness ==
    /\ hostMode = "stopped"
    /\ lastOp = "sleepOn"
    /\ autoSleep
    /\ pc = "done"

\* C19 (as claimed): what a completed updateUI() call has rendered is the
\* state its updateGame() call produced, also when the UI context restarts
\* the session in between.
C19_RendersCompletedTick == lastOp = "label" => rendered = snap

\* the Alt press, as handled by either screen
ExitPress ==
    /\ Scheduled
    /\ BirdHandleInput("PressAlt") \/ PongHandleInput("PressAlt", RandVals)
    /\ UNCHANGED threadVars

\* C18: an Alt press handled by handleInput() requests the transition to the
\* main menu, while Playing and in Game Over alike, and changes no session
\* field; as long as the screen runs the Alt press can be handled, so the
\* session can always be left.
C18_ExitAlways ==
    /\ [][lastOp' = "PressAlt" =>
            (exitRequested' /\ UNCHANGED <<sessionFields, filter, running>>)]_vars
    /\ []((running /\ ~exitRequested) => ENABLED ExitPress)

\* C18 witness: the session was left from a frozen Game Over.
C18_Witness ==
    /\ exitRequested
    /\ lastOp = "PressAlt"
    /\ gameOver
    /\ idleTicks > 0

\* C20 (as claimed): after every Pong tick the ball is at
\* 0 <= y <= SCREEN_HEIGHT - BALL_SIZE and x <= SCREEN_WIDTH - BALL_SIZE.
C20_BallInsideWalls ==
    (game = "Pong" /\ lastOp = "tick") =>
        /\ ballState.y >= 0
        /\ ballState.y <= (SCREEN_HEIGHT - BALL_SIZE) * PX_UNIT
        /\ ballState.x <= (SCREEN_WIDTH - BALL_SIZE) * PX_UNIT

C22_OneEventPerLoop ==
    /\ [][lastOp' \in QueueEvents \cup {"Empty"} =>
            /\ queue = <<>> =>
                 /\ lastOp' = "Empty"
                 /\ UNCHANGED <<sessionFields, filter, running, exitRequested, queue, clock>>
            /\ queue # <<>> =>
                 /\ lastOp' = Head(queue)
                 /\ queue' = Tail(queue)]_vars
    /\ [](Scheduled => ENABLED QueueLoop)

\* C22 witness: of four queued events the oldest, a Select press after a
\* lost Pong session (the paddle has moved, the ball is back at the centre),
\* was handled and three are left.
C22_Witness ==
    /\ game = "Pong"
    /\ lastOp = "PressSelect"
    /\ Len(queue) = QUEUE_SIZE - 1
    /\ ~gameOver
    /\ playTicks = 0
    /\ paddleY # AXIS_UNIT \div 2
    /\ ballState.x = (SCREEN_WIDTH \div 2) * PX_UNIT

\* C23: the game clock never catches up: after a pass of less than
\* frameTime ticks the thread sleeps exactly the rest of the frame, after a
\* longer pass it does not sleep, whatever the earlier passes took and also
\* across a wrap of the tick count; every updateGame() call is followed by
\* this delay step before the next one.
C23_NoCatchUp ==
    /\ [][lastOp' = "delay" =>
            /\ clock'.slept = IF clock.passed < frameTime
                              THEN frameTime - clock.passed ELSE 0
            /\ clock'.slept \in 0 .. frameTime
            /\ clock'.now = Add32(clock.now, clock'.slept)]_vars
    /\ [][lastOp' = "tick" => (pc = "update" /\ pc' = "delay")]_vars

\* C23 witness: a pass overran the frame while the tick count wrapped; the
\* thread did not sleep.
C23_Witness ==
    /\ lastOp = "delay"
    /\ clock.passed > frameTime
    /\ clock.slept = 0
    /\ clock.startTick[1] = Half - 1
    /\ clock.now[1] = 0
    /\ playTicks > 1

EmaSlack == 3

ResetState ==
    /\ score = 0
    /\ ~gameOver
    /\ IF game = "Pong"
       THEN /\ ballState.x = (SCREEN_WIDTH \div 2) * PX_UNIT
            /\ ballState.y = (SCREEN_HEIGHT \div 2) * PX_UNIT
       ELSE /\ scrollSpeed = INITIAL_SPEED
            /\ \A i \in BirdIdx : ~birdState[i].active

\* C25: a restart handled in the UI context while the game thread ticks is
\* atomic with respect to ticks: when the restart block returns the state is
\* the reset state, and no updateGame() call that got past its gameOver test
\* while the block was in progress found a state that was only partly reset.
C25_RestartAtomic ==
    [][/\ lastOp' = "restarted" => ResetState'
       /\ (hostMode = "restart" /\ lastOp' = "tick" /\ ~gameOver) => ResetState]_vars

\* C26: no simulation mutation happens while gameOver is true, the rest of
\* the tick that detects the end included: a tick entered in Game Over
\* changes no bird, ball, score or speed; in the tick whose checkCollisions()
\* sets gameOver, what follows checkCollisions() leaves scrollSpeed and
\* lastDifficultyScore as they were, the score at its value before the tick
\* plus the birds that left the screen (BirdDodger) or unchanged (Pong), the
\* birds where the movement loop put them and the ball where the move and a
\* top/bottom bounce put it.
C26_NothingAfterGameOver ==
    [][lastOp' = "tick" =>
         /\ gameOver =>
              UNCHANGED <<score, scrollSpeed, lastDifficultyScore, birdState, ballState>>
         /\ (~gameOver /\ gameOver') =>
              /\ scrollSpeed' = scrollSpeed
              /\ lastDifficultyScore' = lastDifficultyScore
              /\ game = "Pong" =>
                   /\ score' = score
                   /\ birdState' = birdState
                   /\ ballState'.x = ballState.x + ballState.vx
                   /\ ballState'.y = ballState.y + ballState.vy
                   /\ ballState'.vx = ballState.vx
                   /\ ballState'.vy \in {ballState.vy, -ballState.vy}
              /\ game = "BirdDodger" =>
                   /\ ballState' = ballState
                   /\ score' = score + Cardinality({i \in BirdIdx :
                                   birdState[i].active /\ ~birdState'[i].active})
                   /\ \A i \in BirdIdx :
                        birdState[i].active =>
                            birdState'[i].y = birdState[i].y + scrollSpeed]_vars

\* C26 witness: a BirdDodger session that ended by a collision in the tick
\* just run, at a score for which the difficulty step is tested (10).
C26_Witness ==
    /\ game = "BirdDodger"
    /\ lastOp = "tick"
    /\ gameOver
    /\ idleTicks = 0
    /\ score = 10
    /\ lastDifficultyScore = 10
    /\ scrollSpeed = INITIAL_SPEED + SPEED_INCREMENT

\* C27: in BirdDodger a bird's object is visible exactly when its slot is
\* active: whenever the UI context is not inside the restart block, slot i
\* has LV_OBJ_FLAG_HIDDEN set if and only if birdState[i].active is false,
\* also after a restart that was interleaved with ticks of the game thread.
C27_VisibleIffActive ==
    (game = "BirdDodger" /\ hostMode # "restart") =>
        \A i \in BirdIdx : hiddenFlag[i] <=> ~birdState[i].active

\* C28: the sensor filter is reset to a freshly read sample at every session
\* start and at every restart, before the first filter update of the
\* session: onStart() leaves the filter at the current reading, and so does
\* the restart taken from Game Over.
C28_FilterResetOnRestart ==
    [][(lastOp' = "onStart" \/ (gameOver /\ ~gameOver')) => filter' = imuSample]_vars

\* C29: spawnBird() activates the inactive slot with the lowest index and no
\* other: that slot gets y = -BIRD_SIZE and an x in [0, SCREEN_WIDTH - BIRD_SIZE),
\* whatever esp_random() returned, and every other slot keeps its active
\* flag, x and y.
C29_SpawnTakesLowestFree ==
    [][lastOp' = "spawnBird" =>
         \E i \in BirdIdx :
            /\ ~birdState[i].active
            /\ \A j \in BirdIdx : j < i => birdState[j].active
            /\ birdState'[i].active
            /\ birdState'[i].y = -BIRD_SIZE * Y_UNIT
            /\ birdState'[i].x >= 0
            /\ birdState'[i].x < SCREEN_WIDTH - BIRD_SIZE
            /\ \A j \in BirdIdx : j # i => birdState'[j] = birdState[j]]_vars

\* C29 witness: spawnBird() has just filled slot 0, which a bird that left
\* the screen had freed, below two active slots and with slot 3 still free;
\* esp_random() had returned a value above the divisor.
C29_Witness ==
    /\ lastOp = "spawnBird"
    /\ score = 1
    /\ birdState[0].active
    /\ birdState[0].y = -BIRD_SIZE * Y_UNIT
    /\ birdState[0].x = 2147483647 % (SCREEN_WIDTH - BIRD_SIZE)
    /\ birdState[1].active
    /\ birdState[2].active
    /\ ~birdState[3].active

\* C30: in BirdDodger every Playing tick moves each active bird down by
\* scrollSpeed; a bird whose y exceeds SCREEN_HEIGHT after the move, and no
\* other, is deactivated in that tick and raises the score by one; nothing
\* else raises the score, so that the score is the number of birds that left
\* the screen since the last restart (the birds spawned, one every
\* SPAWN_INTERVAL frames, less those still active).
C30_ScoreCountsReaped ==
    /\ [][(game = "BirdDodger" /\ lastOp' = "tick" /\ ~gameOver) =>
            /\ \A i \in BirdIdx :
                 birdState[i].active =>
                    /\ birdState'[i].y = birdState[i].y + scrollSpeed
                    /\ birdState'[i].x = birdState[i].x
                    /\ birdState'[i].active <=> birdState'[i].y <= SCREEN_HEIGHT * Y_UNIT
            /\ score' = score + Cardinality({i \in BirdIdx :
                            birdState[i].active /\ ~birdState'[i].active})]_vars
    /\ [][(game = "BirdDodger" /\ score' # score) =>
            \/ lastOp' = "tick" /\ ~gameOver
            \/ lastOp' = "PressSelect" /\ gameOver /\ score' = 0]_vars
    /\ [](game = "BirdDodger" =>
            score = frameCounter \div SPAWN_INTERVAL - ActiveCount(birdState))

\* C30 witness: the tick just run took the first bird off the screen, one
\* step below the bottom line, and the score went from 0 to 1.
C30_Witness ==
    /\ game = "BirdDodger"
    /\ lastOp = "tick"
    /\ ~gameOver
    /\ score = 1
    /\ ~birdState[0].active
    /\ birdState[0].y = SCREEN_HEIGHT * Y_UNIT + INITIAL_SPEED
    /\ birdState[1].active
    /\ birdState[2].active

\* C31 (as claimed): every ball resetBall() launches, at construction and at
\* a restart, moves away from the paddle within 45 degrees of the horizontal:
\* vx > 0 and |vy| <= vx, whatever esp_random() returned.
C31_LaunchTowardRightWall ==
    (game = "Pong" /\ lastOp \in {"construct", "PressSelect"} /\ playTicks = 0 /\ ~gameOver) =>
        /\ ballState.vx > 0
        /\ Abs(ballState.vy) <= ballState.vx

\* the pool with the slots of S holding active birds that lie on the plane
Crowd(S) ==
    [i \in BirdIdx |->
        IF i \in S
        THEN [x      |-> (planeX * (SCREEN_WIDTH - PLANE_SIZE)) \div AXIS_UNIT,
              y      |-> PLANE_Y * Y_UNIT,
              active |-> TRUE]
        ELSE birdState[i]]

\* C32: the miss sound is played exactly once in a tick that takes the
\* session from Playing to Game Over and in no other tick; a step that is
\* no tick plays nothing; a tick entered in Game Over plays no sound at all; and a checkCollisions() scan that
\* finds several active birds on the plane (any slots, with the plane where
\* a tick left it) plays the miss sound once.
C32_MissSoundOncePerEnd ==
    /\ [][lastOp' = "tick" =>
            /\ played'.miss = IF ~gameOver /\ gameOver' THEN 1 ELSE 0
            /\ gameOver => played' = [hit |-> 0, miss |-> 0]]_vars
    /\ [][lastOp' # "tick" => played' \in {played, [hit |-> 0, miss |-> 0]}]_vars
    /\ []((game = "BirdDodger" /\ lastOp = "tick") =>
            \A S \in SUBSET BirdIdx : S # {} => MissCalls(planeX, Crowd(S)) = 1)

\* C32 witness: the tick just run ended a BirdDodger session, with two
\* birds active, and played the miss sound once.
C32_Witness ==
    /\ game = "BirdDodger"
    /\ lastOp = "tick"
    /\ gameOver
    /\ idleTicks = 0
    /\ ActiveCount(birdState) = 2
    /\ played = [hit |-> 0, miss |-> 1]

C34_SpawnNeverDropped ==
    /\ [][(game = "BirdDodger" /\ lastOp' = "tick" /\ ~gameOver) =>
            /\ (frameCounter' % SPAWN_INTERVAL = 0) =>
                   /\ \E i \in BirdIdx : ~birdState[i].active
                   /\ Cardinality({i \in BirdIdx :
                          ~birdState[i].active /\ birdState'[i].active}) = 1
            /\ \A i \in BirdIdx :
                   birdState[i].active => birdState'[i].y >= birdState[i].y + INITIAL_SPEED]_vars
    /\ [](game = "BirdDodger" =>
            /\ ActiveCount(birdState) <= 3
            /\ \A i \in BirdIdx :
                   birdState[i].active =>
                       /\ birdState[i].y > -BIRD_SIZE * Y_UNIT
                       /\ birdState[i].y <= SCREEN_HEIGHT * Y_UNIT)

\* C34 witness: the fourth bird of a session has just been spawned, into
\* slot 0, which the first bird had left; three birds are active.
C34_Witness ==
    /\ game = "BirdDodger"
    /\ lastOp = "tick"
    /\ frameCounter = 4 * SPAWN_INTERVAL
    /\ score = 1
    /\ ActiveCount(birdState) = 3
    /\ birdState[0].active
    /\ birdState[0].y = -BIRD_SIZE * Y_UNIT + INITIAL_SPEED

\* C35: in BirdDodger no bird passes the plane's row between two collision
\* checks, at any scrollSpeed: a bird that is above the row before a tick
\* (its lower edge at PLANE_Y or higher up) is not below it after the tick,
\* and every bird a tick takes off the screen had been tested by
\* checkCollisions() in an earlier tick while its vertical extent
\* overlapped the plane's.
C35_NoTunnelling ==
    [][(game = "BirdDodger" /\ lastOp' = "tick" /\ ~gameOver) =>
         \A i \in BirdIdx :
            /\ (birdState[i].active /\ birdState[i].y + BIRD_SIZE * Y_UNIT <= PLANE_Y * Y_UNIT) =>
                   birdState'[i].y < (PLANE_Y + PLANE_SIZE) * Y_UNIT
            /\ (birdState[i].active /\ ~birdState'[i].active) => testedInRow[i]]_vars

\* C35 witness: at the top speed a tick has just taken a bird off the
\* screen that had been tested in the plane's row.
C35_Witness ==
    /\ game = "BirdDodger"
    /\ lastOp = "tick"
    /\ ~gameOver
    /\ scrollSpeed = MAX_SPEED
    /\ \E i \in BirdIdx :
          /\ ~birdState[i].active
          /\ birdState[i].y > SCREEN_HEIGHT * Y_UNIT
          /\ birdState[i].y <= SCREEN_HEIGHT * Y_UNIT + MAX_SPEED
          /\ testedInRow[i]

ReturnTicks ==
    (2 * (SCREEN_WIDTH - BALL_SIZE - PADDLE_WIDTH) * PX_UNIT)
        \div RoundDiv(BALL_SPEED * CosMilli[45], 1000) + 1

\* C37: in Pong, under a fair tick schedule, a tick never changes the
\* magnitude of vx, which is never 0; from every Playing state that has
\* ReturnTicks ticks left a tick with the ball at x <= PADDLE_WIDTH follows;
\* and every session comes to a paddle hit or to Game Over.
C37_BallReachesPaddleSide ==
    /\ [][(game = "Pong" /\ lastOp' = "tick") =>
            (ballState.vx # 0 /\ ballState'.vx \in {ballState.vx, -ballState.vx})]_vars
    /\ (game = "Pong" /\ Scheduled /\ ~gameOver /\ playTicks <= MaxFairTicks - ReturnTicks)
          ~> (game = "Pong" /\ lastOp = "tick" /\ ballState.x <= PADDLE_WIDTH * PX_UNIT)
    /\ (game = "Pong" /\ Scheduled /\ ~gameOver /\ playTicks = 0)
          ~> (score > 0 \/ gameOver)

\* C37 witness: the ball is back on the paddle for the second time, after
\* a full trip to the right wall.
C37_Witness ==
    /\ game = "Pong"
    /\ lastOp = "tick"
    /\ ~gameOver
    /\ score = 2
    /\ ballState.x = PADDLE_WIDTH * PX_UNIT
    /\ ballState.vx > 0

\* moves that take a bird from y = -BIRD_SIZE past y > SCREEN_HEIGHT at the
\* lowest speed
LifeTicks == ((SCREEN_HEIGHT + BIRD_SIZE) * Y_UNIT) \div INITIAL_SPEED + 1

\* C38: in BirdDodger, under a fair tick schedule, every active bird leaves
\* the pool or the session ends: from every Playing state that has
\* LifeTicks ticks left, a bird that is active is eventually inactive or the
\* session is in Game Over; a tick that deactivates a bird raises the score
\* by one.
C38_BirdsLeaveOrSessionEnds ==
    /\ \A i \in BirdIdx :
          (/\ game = "BirdDodger"
           /\ Scheduled
           /\ ~gameOver
           /\ birdState[i].active
           /\ frameCounter <= MaxFairTicks - LifeTicks)
             ~> (~birdState[i].active \/ gameOver)
    /\ [][(game = "BirdDodger" /\ lastOp' = "tick"
             /\ \E i \in BirdIdx : birdState[i].active /\ ~birdState'[i].active) =>
            score' = score + 1]_vars

\* C38 witness: the second bird of a session has just left the screen from
\* slot 1 while the fourth, in slot 0, is on its way.
C38_Witness ==
    /\ game = "BirdDodger"
    /\ lastOp = "tick"
    /\ ~gameOver
    /\ score = 2
    /\ ~birdState[1].active
    /\ birdState[1].y > SCREEN_HEIGHT * Y_UNIT
    /\ birdState[0].active

====
